---- MODULE Spec2Model ----
(***************************************************************************)
(* A model of src/utils/order_utils.ts of 0x-api: the order comparators    *)
(* (compareAskOrder, compareBidOrder, compareOrderByFeeRatio) and the      *)
(* pinning classifier (getPoolsAsync, splitOrdersByPinningAsync) with the  *)
(* process-wide PIN_CACHE.                                                 *)
(***************************************************************************)
EXTENDS Integers, Sequences, FiniteSets, TLC

(***************************************************************************)
(* Bounds of the model.                                                    *)
(***************************************************************************)
\* Amounts (makerAmount, takerAmount) range over 1..MaxAmount.
MaxAmount == 2
\* takerTokenFeeAmount ranges over 0..MaxFee.
MaxFee == 1
\* BigNumber.div rounds its quotient to DECIMAL_PLACES decimal places
\* (ROUND_HALF_UP).  The library is configured with 78 places; the model keeps
\* the rounding and scales the number of places down, so that quotients of
\* amounts within MaxAmount cross the precision limit the way quotients of
\* amounts above 10^39 do at 78 places.
DecimalPlaces == 0
\* Expiry values of the orders compared.
Expiries == {1000, 2000}

RECURSIVE Pow10(_)
Pow10(n) == IF n = 0 THEN 1 ELSE 10 * Pow10(n - 1)

\* The quotients below are fixed-point numbers: the integer q stands for
\* q / QuotientScale.
QuotientScale == Pow10(DecimalPlaces)

(***************************************************************************)
(* BigNumber operations used by the comparators.                           *)
(***************************************************************************)
\* x.div(y) for x >= 0, y > 0: x / y rounded half up to DecimalPlaces places.
div(x, y) == (2 * x * QuotientScale + y) \div (2 * y)

isEqualTo(x, y) == x = y

comparedTo(x, y) == IF x < y THEN -1 ELSE IF x > y THEN 1 ELSE 0

(***************************************************************************)
(* The comparators.                                                        *)
(***************************************************************************)
compareOrderByFeeRatio(orderA, orderB) ==
    LET orderAFeePrice == div(orderA.takerTokenFeeAmount, orderA.takerAmount)
        orderBFeePrice == div(orderB.takerTokenFeeAmount, orderB.takerAmount)
    IN  IF ~isEqualTo(orderAFeePrice, orderBFeePrice)
        THEN comparedTo(orderBFeePrice, orderAFeePrice)
        ELSE comparedTo(orderA.expiry, orderB.expiry)

\* compareAskOrder with orderB's price taken the way compareBidOrder takes it.
compareAskOrderBidPriceOfB(orderA, orderB) ==
    LET orderAPrice == div(orderA.takerAmount, orderA.makerAmount)
        orderBPrice == div(orderB.makerAmount, orderB.takerAmount)
    IN  IF ~isEqualTo(orderAPrice, orderBPrice)
        THEN comparedTo(orderAPrice, orderBPrice)
        ELSE compareOrderByFeeRatio(orderA, orderB)

compareAskOrder(orderA, orderB) ==
    LET orderAPrice == div(orderA.takerAmount, orderA.makerAmount)
        orderBPrice == div(orderB.takerAmount, orderB.makerAmount)
    IN  IF ~isEqualTo(orderAPrice, orderBPrice)
        THEN comparedTo(orderAPrice, orderBPrice)
        ELSE compareOrderByFeeRatio(orderA, orderB)

compareBidOrder(orderA, orderB) ==
    LET orderAPrice == div(orderA.makerAmount, orderA.takerAmount)
        orderBPrice == div(orderB.makerAmount, orderB.takerAmount)
    IN  IF ~isEqualTo(orderAPrice, orderBPrice)
        THEN comparedTo(orderBPrice, orderAPrice)
        ELSE compareOrderByFeeRatio(orderA, orderB)

\* The orders the comparators are applied to: positive amounts.
LimitOrders ==
    [makerAmount : 1..MaxAmount, takerAmount : 1..MaxAmount,
     takerTokenFeeAmount : 0..MaxFee, expiry : Expiries]

(***************************************************************************)
(* The pinning classifier: configuration and the staking-pool source.      *)
(***************************************************************************)
TEN_MINUTES_MS == 600000
ONE_SECOND_MS == 1000

\* The clock advances at most MaxTicks times.
MaxTicks == 2
\* At most MaxFetches pool-stats queries are issued.
MaxFetches == 2
\* A batch of signed orders holds at most MaxBatch orders.
MaxBatch == 2

\* Maker addresses: "0xaa" is configured as pinned, "0xAA" differs from it in
\* case only, "0xbb" and "0xcc" appear in staking pools.
Makers == {"0xaa", "0xAA", "0xbb", "0xcc"}

\* config.PINNED_MM_ADDRESSES and config.PINNED_POOL_IDS as configured.
ConfiguredPinnedMmAddresses == <<"0xaa">>
PINNED_POOL_IDS == <<"1">>

\* The rows stakingPoolsQuery may return (RawPool: pool_id, maker_addresses).
Snapshot1 ==
    << [pool_id |-> "1", maker_addresses |-> <<"0xbb">>],
       [pool_id |-> "2", maker_addresses |-> <<"0xcc">>] >>
Snapshot2 ==
    << [pool_id |-> "1", maker_addresses |-> <<"0xcc", "0xaa">>],
       [pool_id |-> "3", maker_addresses |-> <<"0xbb">>] >>
PoolSnapshots == {Snapshot1, Snapshot2}

\* The batches handed to splitOrdersByPinningAsync; an order is known to the
\* classifier by its maker.
SignedOrders == [maker : Makers]
BatchesUpTo(n) == UNION {[1..k -> SignedOrders] : k \in 0..n}
Batches == BatchesUpTo(MaxBatch)

Callers == {1, 2}

\* Array.prototype.includes on strings: strict equality.
includes(array, x) == \E i \in 1..Len(array) : array[i] = x

(***************************************************************************)
(* ResultCache (./result_cache): one entry, the last fetched result and    *)
(* the time of its fetch.                                                  *)
(***************************************************************************)
\* PIN_CACHE before its lazy initialisation (undefined).
NoCache == [instance |-> 0, hasResult |-> FALSE, result |-> <<>>, timestamp |-> 0]

\* createResultCache: the n-th cache instance of the process, with no entry.
createResultCache(n) ==
    [instance |-> n, hasResult |-> FALSE, result |-> <<>>, timestamp |-> 0]

\* getResultAsync fetches when there is no entry or the entry's age exceeds
\* the expiry.
NeedsFetch(cache, cacheExpiryMs, t) ==
    \/ ~cache.hasResult
    \/ t - cache.timestamp > cacheExpiryMs

\* getResultAsync after a successful fetch: the entry is replaced as a whole.
StoreResult(cache, rows, t) ==
    [cache EXCEPT !.hasResult = TRUE, !.result = rows, !.timestamp = t]

(***************************************************************************)
(* getPoolsAsync and splitOrdersByPinningAsync.                            *)
(***************************************************************************)
\* A cache created with an expiry of one second.
CacheExpiryOneSecond == ONE_SECOND_MS

\* The expiry getPoolsAsync creates PIN_CACHE with (line 35).
CacheExpiryMs == TEN_MINUTES_MS

\* getPoolsAsync without the test of PIN_CACHE: a cache per call.
LazyInitCacheAlways(cache) == createResultCache(cache.instance + 1)

\* getPoolsAsync, lines 34-36: PIN_CACHE is created on the first call only.
LazyInitCache(cache) ==
    IF cache.instance = 0 THEN createResultCache(cache.instance + 1) ELSE cache

\* The forEach callback without the PINNED_POOL_IDS test.
AppendPoolMakersAnyPool(st, poolStats) ==
    [st EXCEPT !.makerAddresses = @ \o poolStats.maker_addresses]

\* The forEach callback that overwrites makerAddresses instead of appending.
AppendPoolMakersOverwrite(st, poolStats) ==
    IF ~includes(PINNED_POOL_IDS, poolStats.pool_id)
    THEN st
    ELSE [st EXCEPT !.makerAddresses = poolStats.maker_addresses]

\* The forEach callback of lines 237-242.  st.makerAddresses is the local
\* array, st.pinned the configured PINNED_MM_ADDRESSES array it starts as: the
\* spread builds a new array and the configured one is not written.
AppendPoolMakers(st, poolStats) ==
    IF ~includes(PINNED_POOL_IDS, poolStats.pool_id)
    THEN st
    ELSE [st EXCEPT !.makerAddresses = @ \o poolStats.maker_addresses]

RECURSIVE CollectMakerAddresses(_, _)
CollectMakerAddresses(st, currentPools) ==
    IF currentPools = <<>>
    THEN st
    ELSE CollectMakerAddresses(AppendPoolMakers(st, Head(currentPools)),
                               Tail(currentPools))

\* The forEach callback of lines 247-253 without its else.
PushOrderNoElse(pinResult, signedOrder, makerAddresses) ==
    IF includes(makerAddresses, signedOrder.maker)
    THEN [pinResult EXCEPT !.pin = Append(@, signedOrder),
                           !.doNotPin = Append(@, signedOrder)]
    ELSE [pinResult EXCEPT !.doNotPin = Append(@, signedOrder)]

\* The forEach callback of lines 247-253.
PushOrder(pinResult, signedOrder, makerAddresses) ==
    IF includes(makerAddresses, signedOrder.maker)
    THEN [pinResult EXCEPT !.pin = Append(@, signedOrder)]
    ELSE [pinResult EXCEPT !.doNotPin = Append(@, signedOrder)]

RECURSIVE SplitOrders(_, _, _)
SplitOrders(pinResult, signedOrders, makerAddresses) ==
    IF signedOrders = <<>>
    THEN pinResult
    ELSE SplitOrders(PushOrder(pinResult, Head(signedOrders), makerAddresses),
                     Tail(signedOrders), makerAddresses)

VARIABLES
    orders,     \* the three orders handed to a comparator
    comparator, \* "none", or the comparator last applied: "ask", "bid", "fee"
    result,     \* result[i][j]: the comparator's value on orders[i], orders[j]
    now,                 \* Date.now()
    ticks,               \* how often the clock has advanced
    PIN_CACHE,           \* the module-level cache
    PINNED_MM_ADDRESSES, \* the configured array of pinned makers
    fetchCount,          \* the stakingPoolsQuery queries issued so far
    calls                \* per caller, its splitOrdersByPinningAsync call

cmpVars == <<orders, comparator, result>>
pinVars == <<now, ticks, PIN_CACHE, PINNED_MM_ADDRESSES, fetchCount, calls>>
vars == <<orders, comparator, result, now, ticks, PIN_CACHE,
          PINNED_MM_ADDRESSES, fetchCount, calls>>

NoResult == [i \in 1..3 |-> [j \in 1..3 |-> 0]]

\* A caller that has not called yet.
IdleCall ==
    [pc |-> "idle", signedOrders |-> <<>>, instance |-> 0, outcome |-> "none",
     currentPools |-> <<>>, pin |-> <<>>, doNotPin |-> <<>>, warned |-> FALSE]

InitPin ==
    /\ now = 0
    /\ ticks = 0
    /\ PIN_CACHE = NoCache
    /\ PINNED_MM_ADDRESSES = ConfiguredPinnedMmAddresses
    /\ fetchCount = 0
    /\ calls = [c \in Callers |-> IdleCall]

InitOrders ==
    /\ comparator = "none"
    /\ result = NoResult

(***************************************************************************)
(* The comparators applied to three orders.                                *)
(***************************************************************************)
InitCmp ==
    /\ orders \in [1..3 -> LimitOrders]
    /\ InitOrders
    /\ InitPin

CompareAsk ==
    /\ comparator = "none"
    /\ comparator' = "ask"
    /\ result' = [i \in 1..3 |-> [j \in 1..3 |-> compareAskOrder(orders[i], orders[j])]]
    /\ UNCHANGED <<orders, pinVars>>

CompareBid ==
    /\ comparator = "none"
    /\ comparator' = "bid"
    /\ result' = [i \in 1..3 |-> [j \in 1..3 |-> compareBidOrder(orders[i], orders[j])]]
    /\ UNCHANGED <<orders, pinVars>>

CompareFee ==
    /\ comparator = "none"
    /\ comparator' = "fee"
    /\ result' = [i \in 1..3 |-> [j \in 1..3 |-> compareOrderByFeeRatio(orders[i], orders[j])]]
    /\ UNCHANGED <<orders, pinVars>>

NextCmp == CompareAsk \/ CompareBid \/ CompareFee

SpecCmp == InitCmp /\ [][NextCmp]_vars

(***************************************************************************)
(* The classifier: calls of splitOrdersByPinningAsync by concurrent        *)
(* callers, each suspending only at the pool-stats fetch.                  *)
(***************************************************************************)
\* Lines 236-254 with currentPools settled: the call's record once returned,
\* and the configured array after it.
Classified(call, currentPools, outcome, warned) ==
    LET st == CollectMakerAddresses(
                  [makerAddresses |-> PINNED_MM_ADDRESSES,
                   pinned |-> PINNED_MM_ADDRESSES], currentPools)
        pinResult == SplitOrders([pin |-> <<>>, doNotPin |-> <<>>],
                                 call.signedOrders, st.makerAddresses)
    IN  [call |-> [call EXCEPT !.pc = "done", !.outcome = outcome,
                               !.currentPools = currentPools,
                               !.pin = pinResult.pin,
                               !.doNotPin = pinResult.doNotPin,
                               !.warned = warned],
         pinned |-> st.pinned]

\* A call that finds a fresh entry: no fetch, the call runs to its return.
CallCached(c, signedOrders) ==
    /\ calls[c].pc # "fetching"
    /\ LET cache == LazyInitCache(PIN_CACHE)
           r == Classified([IdleCall EXCEPT !.signedOrders = signedOrders,
                                            !.instance = cache.instance],
                           cache.result, "cached", FALSE)
       IN  /\ ~NeedsFetch(cache, CacheExpiryMs, now)
           /\ PIN_CACHE' = cache
           /\ calls' = [calls EXCEPT ![c] = r.call]
           /\ PINNED_MM_ADDRESSES' = r.pinned
    /\ UNCHANGED <<now, ticks, fetchCount, cmpVars>>

\* A call that finds no entry or an expired one: the query is issued and the
\* call suspends at the await of line 232.
CallFetch(c, signedOrders) ==
    /\ calls[c].pc # "fetching"
    /\ fetchCount < MaxFetches
    /\ LET cache == LazyInitCache(PIN_CACHE)
       IN  /\ NeedsFetch(cache, CacheExpiryMs, now)
           /\ PIN_CACHE' = cache
           /\ calls' = [calls EXCEPT ![c] =
                           [IdleCall EXCEPT !.pc = "fetching",
                                            !.signedOrders = signedOrders,
                                            !.instance = cache.instance]]
    /\ fetchCount' = fetchCount + 1
    /\ UNCHANGED <<now, ticks, PINNED_MM_ADDRESSES, cmpVars>>

\* The query resolves with rows: the cache the call fetched for stores them
\* with the current time, and the call runs to its return.
FetchSucceeds(c, rows) ==
    /\ calls[c].pc = "fetching"
    /\ LET r == Classified(calls[c], rows, "fetched", FALSE)
       IN  /\ calls' = [calls EXCEPT ![c] = r.call]
           /\ PINNED_MM_ADDRESSES' = r.pinned
    /\ PIN_CACHE' = IF PIN_CACHE.instance = calls[c].instance
                    THEN StoreResult(PIN_CACHE, rows, now)
                    ELSE PIN_CACHE
    /\ UNCHANGED <<now, ticks, fetchCount, cmpVars>>

\* The query rejects and nothing catches: the rejection reaches the caller.
FetchFailsRethrows(c) ==
    /\ calls[c].pc = "fetching"
    /\ calls' = [calls EXCEPT ![c] = [@ EXCEPT !.pc = "threw", !.outcome = "failed"]]
    /\ UNCHANGED <<now, ticks, PIN_CACHE, PINNED_MM_ADDRESSES, fetchCount, cmpVars>>

\* The query rejects and the failure is cached as an empty result.
FetchFailsCachesEmpty(c) ==
    /\ calls[c].pc = "fetching"
    /\ LET r == Classified(calls[c], <<>>, "failed", TRUE)
       IN  /\ calls' = [calls EXCEPT ![c] = r.call]
           /\ PINNED_MM_ADDRESSES' = r.pinned
    /\ PIN_CACHE' = StoreResult(PIN_CACHE, <<>>, now)
    /\ UNCHANGED <<now, ticks, fetchCount, cmpVars>>

\* The query rejects: the catch of lines 233-235 logs a warning, currentPools
\* stays [] and the call runs to its return.
FetchFails(c) ==
    /\ calls[c].pc = "fetching"
    /\ LET r == Classified(calls[c], <<>>, "failed", TRUE)
       IN  /\ calls' = [calls EXCEPT ![c] = r.call]
           /\ PINNED_MM_ADDRESSES' = r.pinned
    /\ UNCHANGED <<now, ticks, PIN_CACHE, fetchCount, cmpVars>>

\* Time passes.
Tick(d) ==
    /\ ticks < MaxTicks
    /\ ticks' = ticks + 1
    /\ now' = now + d
    /\ UNCHANGED <<PIN_CACHE, PINNED_MM_ADDRESSES, fetchCount, calls, cmpVars>>

TickSteps == {ONE_SECOND_MS, TEN_MINUTES_MS}

Init ==
    /\ orders = [i \in 1..3 |-> [makerAmount |-> 1, takerAmount |-> 1,
                                 takerTokenFeeAmount |-> 0, expiry |-> 1000]]
    /\ InitOrders
    /\ InitPin

\* One caller after the other, every batch within MaxBatch.
Next ==
    \/ \E signedOrders \in Batches : CallCached(1, signedOrders)
    \/ \E signedOrders \in Batches : CallFetch(1, signedOrders)
    \/ \E rows \in PoolSnapshots : FetchSucceeds(1, rows)
    \/ FetchFails(1)
    \/ \E d \in TickSteps : Tick(d)

Spec == Init /\ [][Next]_vars

\* Concurrent callers, each handing in the batch that holds every maker once.
ProbeBatch ==
    << [maker |-> "0xaa"], [maker |-> "0xAA"], [maker |-> "0xbb"], [maker |-> "0xcc"] >>

NextConcurrent ==
    \/ \E c \in Callers : CallCached(c, ProbeBatch)
    \/ \E c \in Callers : CallFetch(c, ProbeBatch)
    \/ \E c \in Callers, rows \in PoolSnapshots : FetchSucceeds(c, rows)
    \/ \E c \in Callers : FetchFails(c)
    \/ \E d \in TickSteps : Tick(d)

SpecConcurrent == Init /\ [][NextConcurrent]_vars

(***************************************************************************)
(* What the claims are stated with.                                        *)
(***************************************************************************)
Range(seq) == {seq[i] : i \in DOMAIN seq}

PinnedMakers == Range(ConfiguredPinnedMmAddresses)

\* The makers of the pools of a snapshot whose pool_id is pinned.
TrustedPoolMakers(pools) ==
    UNION {Range(pools[i].maker_addresses) :
             i \in {k \in DOMAIN pools : pools[k].pool_id \in Range(PINNED_POOL_IDS)}}

\* The elements of seq at the positions in I, from position k on, in order.
RECURSIVE SubSeqAt(_, _, _)
SubSeqAt(seq, I, k) ==
    IF k > Len(seq)
    THEN <<>>
    ELSE (IF k \in I THEN <<seq[k]>> ELSE <<>>) \o SubSeqAt(seq, I, k + 1)

Returned(c) == calls[c].pc = "done"

\* The entry of a cache: what a fetch may replace.
CacheEntry(cache) == <<cache.hasResult, cache.result, cache.timestamp>>

\* Exact comparison of the ratios by cross-multiplication.
AskPriceLower(a, b) == a.takerAmount * b.makerAmount < b.takerAmount * a.makerAmount
AskPriceEqual(a, b) == a.takerAmount * b.makerAmount = b.takerAmount * a.makerAmount
BidPriceHigher(a, b) == a.makerAmount * b.takerAmount > b.makerAmount * a.takerAmount
FeeRatioLower(a, b) ==
    a.takerTokenFeeAmount * b.takerAmount < b.takerTokenFeeAmount * a.takerAmount

(***************************************************************************)
(* The claims.                                                             *)
(***************************************************************************)
\* C1: every returned call's pin and doNotPin partition its batch: their
\* lengths add up to the batch's, and there is a set I of positions of the
\* batch such that pin is the batch at I and doNotPin the batch at the other
\* positions, both in input order (no loss, no duplication, stable).
PartitionComplete ==
    \A c \in Callers :
        Returned(c) =>
            LET batch == calls[c].signedOrders
            IN  /\ Len(calls[c].pin) + Len(calls[c].doNotPin) = Len(batch)
                /\ \E I \in SUBSET (1..Len(batch)) :
                      /\ calls[c].pin = SubSeqAt(batch, I, 1)
                      /\ calls[c].doNotPin = SubSeqAt(batch, (1..Len(batch)) \ I, 1)

\* C1's case: a returned call whose two orders both went to pin, the first of
\* them pinned by the staking snapshot and the second by the allow-list.
PartitionCompleteWitness ==
    /\ Returned(1)
    /\ calls[1].signedOrders = << [maker |-> "0xbb"], [maker |-> "0xaa"] >>
    /\ calls[1].pin = << [maker |-> "0xbb"], [maker |-> "0xaa"] >>
    /\ calls[1].doNotPin = <<>>

\* C2: in every returned call, whatever the cache held and whatever the fetch
\* did, every order whose maker is in PINNED_MM_ADDRESSES is in pin and no
\* order in doNotPin has such a maker.
AllowListAlwaysPinned ==
    \A c \in Callers :
        Returned(c) =>
            /\ \A i \in DOMAIN calls[c].signedOrders :
                  calls[c].signedOrders[i].maker \in PinnedMakers
                      => calls[c].signedOrders[i] \in Range(calls[c].pin)
            /\ \A j \in DOMAIN calls[c].doNotPin :
                  calls[c].doNotPin[j].maker \notin PinnedMakers

\* C2's case: a call whose fetch succeeded on a snapshot with a pinned pool
\* returned an allow-listed order in pin, after an earlier call had returned.
AllowListAlwaysPinnedWitness ==
    /\ Returned(1)
    /\ calls[1].outcome = "fetched"
    /\ calls[1].currentPools = Snapshot1
    /\ fetchCount = 2
    /\ [maker |-> "0xaa"] \in Range(calls[1].pin)

\* C3: a call whose fetch failed has returned (it did not raise), has logged
\* a warning, and its result is the partition by the allow-list alone.
FetchFailureDegrades ==
    \A c \in Callers :
        calls[c].outcome = "failed" =>
            /\ calls[c].pc = "done"
            /\ calls[c].warned
            /\ calls[c].pin =
                  SelectSeq(calls[c].signedOrders, LAMBDA o : o.maker \in PinnedMakers)
            /\ calls[c].doNotPin =
                  SelectSeq(calls[c].signedOrders, LAMBDA o : o.maker \notin PinnedMakers)

\* C3's case: the fetch failed while the cache still held an expired snapshot
\* that would pin "0xbb", and "0xbb" was not pinned.
FetchFailureDegradesWitness ==
    /\ calls[1].outcome = "failed"
    /\ PIN_CACHE.hasResult
    /\ PIN_CACHE.result = Snapshot1
    /\ calls[1].signedOrders = << [maker |-> "0xbb"], [maker |-> "0xaa"] >>
    /\ calls[1].pin = << [maker |-> "0xaa"] >>
    /\ calls[1].doNotPin = << [maker |-> "0xbb"] >>

\* C10: in a returned call that obtained a snapshot, an order is in pin if
\* and only if its maker equals a PINNED_MM_ADDRESSES entry or a maker of a
\* snapshot pool whose pool_id is in PINNED_POOL_IDS, and is in doNotPin
\* otherwise; the configured PINNED_MM_ADDRESSES is as it was configured.
PinIffReputable ==
    /\ PINNED_MM_ADDRESSES = ConfiguredPinnedMmAddresses
    /\ \A c \in Callers :
          (Returned(c) /\ calls[c].outcome \in {"cached", "fetched"}) =>
              LET reputable == PinnedMakers \cup TrustedPoolMakers(calls[c].currentPools)
              IN  \A i \in DOMAIN calls[c].signedOrders :
                      LET o == calls[c].signedOrders[i]
                      IN  /\ o \in Range(calls[c].pin) <=> o.maker \in reputable
                          /\ o \in Range(calls[c].doNotPin) <=> o.maker \notin reputable

\* C10's case: under Snapshot1, "0xcc" is a maker of the unpinned pool "2"
\* only and "0xAA" differs from the allow-listed "0xaa" in case: neither is
\* pinned by a call served from the cache.
PinIffReputableWitness ==
    /\ Returned(1)
    /\ calls[1].outcome = "cached"
    /\ calls[1].currentPools = Snapshot1
    /\ calls[1].signedOrders = << [maker |-> "0xcc"], [maker |-> "0xAA"] >>
    /\ calls[1].doNotPin = << [maker |-> "0xcc"], [maker |-> "0xAA"] >>

\* C4: a call made while the cache holds an entry whose age is within
\* TEN_MINUTES_MS issues no query and returns with the cached snapshot; a
\* call made when there is no entry or its age exceeds TEN_MINUTES_MS issues
\* exactly one query.
CacheFreshness ==
    [][\A c \in Callers :
          (calls[c].pc # "fetching" /\ calls'[c] # calls[c]) =>
              IF PIN_CACHE.hasResult /\ now - PIN_CACHE.timestamp <= TEN_MINUTES_MS
              THEN /\ fetchCount' = fetchCount
                   /\ calls'[c].pc = "done"
                   /\ calls'[c].outcome = "cached"
                   /\ calls'[c].currentPools = PIN_CACHE.result
              ELSE /\ fetchCount' = fetchCount + 1
                   /\ calls'[c].pc = "fetching"]_vars

\* C4's case: a fetch at time 0, a second call one second later served from
\* the cache with one query issued so far, and the call after the interval
\* has elapsed issuing the second query.
CacheFreshnessWitness ==
    /\ PIN_CACHE.hasResult
    /\ PIN_CACHE.timestamp = 0
    /\ calls[2].outcome = "cached"
    /\ calls[1].pc = "fetching"
    /\ fetchCount = 2
    /\ now = ONE_SECOND_MS + TEN_MINUTES_MS

\* C5: a failing fetch leaves PIN_CACHE as it was; the cache's entry changes
\* only in a step in which a fetch succeeds, to the rows of that fetch with
\* the current time; no entry holds anything but the rows of a query.
FailedFetchKeepsEntry ==
    [][/\ \A c \in Callers :
             (calls[c].pc = "fetching" /\ calls'[c].outcome = "failed")
                 => PIN_CACHE' = PIN_CACHE
       /\ CacheEntry(PIN_CACHE') # CacheEntry(PIN_CACHE) =>
             \E c \in Callers :
                 /\ calls[c].pc = "fetching"
                 /\ calls'[c].outcome = "fetched"
                 /\ CacheEntry(PIN_CACHE') = <<TRUE, calls'[c].currentPools, now>>
       /\ PIN_CACHE'.hasResult => PIN_CACHE'.result \in PoolSnapshots]_vars

\* C5's case: a fetch has failed while the cache held an expired entry, and
\* the entry is still there, still expired, so that the next call fetches.
FailedFetchKeepsEntryWitness ==
    /\ calls[1].outcome = "failed"
    /\ PIN_CACHE.hasResult
    /\ PIN_CACHE.result = Snapshot2
    /\ PIN_CACHE.timestamp = 0
    /\ NeedsFetch(PIN_CACHE, TEN_MINUTES_MS, now)

\* C9: under every interleaving, one cache instance is created and every
\* call uses it; the entry is whole (the rows of one query, stamped no later
\* than now); every returned call used either no snapshot (its fetch failed)
\* or one whole snapshot, and pinned exactly the makers that snapshot and the
\* allow-list make reputable.
OneSnapshotPerCall ==
    /\ PIN_CACHE.instance <= 1
    /\ PIN_CACHE.hasResult =>
          (PIN_CACHE.result \in PoolSnapshots /\ PIN_CACHE.timestamp <= now)
    /\ \A c \in Callers :
          /\ calls[c].pc # "idle" =>
                (calls[c].instance = 1 /\ PIN_CACHE.instance = 1)
          /\ Returned(c) =>
                /\ \/ calls[c].outcome = "failed" /\ calls[c].currentPools = <<>>
                   \/ /\ calls[c].outcome \in {"cached", "fetched"}
                      /\ calls[c].currentPools \in PoolSnapshots
                /\ calls[c].pin =
                      SelectSeq(calls[c].signedOrders,
                                LAMBDA o : o.maker \in PinnedMakers
                                             \cup TrustedPoolMakers(calls[c].currentPools))

\* C9's case: two calls fetched concurrently (no time passed), the queries
\* returned different snapshots, and each call pinned by its own snapshot
\* while the cache holds the later writer's.
OneSnapshotPerCallWitness ==
    /\ now = 0
    /\ calls[1].outcome = "fetched"
    /\ calls[2].outcome = "fetched"
    /\ calls[1].currentPools = Snapshot1
    /\ calls[2].currentPools = Snapshot2
    /\ PIN_CACHE.result = Snapshot1
    /\ [maker |-> "0xcc"] \in Range(calls[2].pin)
    /\ [maker |-> "0xcc"] \in Range(calls[1].doNotPin)

\* C6: the price decision of compareAskOrder and compareBidOrder is that of
\* the exact comparison by cross-multiplication: a strictly lower ask price
\* (a strictly higher bid price) sorts first, and the fee tie-break is reached
\* only when the cross-products are equal.
ExactPriceDecides ==
    \A i, j \in 1..3 :
        LET a == orders[i]
            b == orders[j]
        IN  /\ comparator = "ask" =>
                  /\ AskPriceLower(a, b) => result[i][j] < 0
                  /\ isEqualTo(div(a.takerAmount, a.makerAmount),
                               div(b.takerAmount, b.makerAmount))
                        => AskPriceEqual(a, b)
            /\ comparator = "bid" =>
                  /\ BidPriceHigher(a, b) => result[i][j] < 0
                  /\ isEqualTo(div(a.makerAmount, a.takerAmount),
                               div(b.makerAmount, b.takerAmount))
                        => AskPriceEqual(a, b)

\* C7: the order with the strictly lower fee ratio ranks first:
\* compareOrderByFeeRatio(a, b) < 0 when a's fee ratio is strictly lower, and
\* so compareAskOrder and compareBidOrder on orders of identical price.
LowerFeeRatioFirst ==
    \A i, j \in 1..3 :
        LET a == orders[i]
            b == orders[j]
        IN  /\ comparator = "fee" =>
                  (FeeRatioLower(a, b) => result[i][j] < 0)
            /\ comparator \in {"ask", "bid"} =>
                  ((AskPriceEqual(a, b) /\ FeeRatioLower(a, b)) => result[i][j] < 0)

Sign(n) == IF n < 0 THEN -1 ELSE IF n > 0 THEN 1 ELSE 0

\* C8: compareAskOrder and compareBidOrder are consistent sort comparators:
\* compare(a, a) = 0, sign(compare(a, b)) = -sign(compare(b, a)), and
\* compare(a, b) < 0 and compare(b, c) < 0 imply compare(a, c) < 0, likewise
\* with <= 0 (a sorted sequence has no inversion, so sorting it changes
\* nothing).
ConsistentComparator ==
    comparator \in {"ask", "bid"} =>
        /\ \A i \in 1..3 : result[i][i] = 0
        /\ \A i, j \in 1..3 : Sign(result[i][j]) = -Sign(result[j][i])
        /\ \A i, j, k \in 1..3 :
              /\ (result[i][j] < 0 /\ result[j][k] < 0) => result[i][k] < 0
              /\ (result[i][j] <= 0 /\ result[j][k] <= 0) => result[i][k] <= 0

\* C8's case: three ask orders in sorted order, the first two of different
\* exact price but equal rounded price, ranked by the tie-break, the third of
\* a higher rounded price.
ConsistentComparatorWitness ==
    /\ comparator = "ask"
    /\ ~AskPriceEqual(orders[1], orders[2])
    /\ isEqualTo(div(orders[1].takerAmount, orders[1].makerAmount),
                 div(orders[2].takerAmount, orders[2].makerAmount))
    /\ result[1][2] < 0
    /\ result[2][3] < 0
    /\ result[1][3] < 0
    /\ result[3][1] > 0

====
